---- MODULE Spec2Model ----
(***************************************************************************)
(* State-machine model of the CrowdTaskZ contract (src/unnamed/part_000).  *)
(*                                                                         *)
(* One action per external function.  A transaction either commits all of  *)
(* its storage writes and logs, or reverts and leaves storage and logs as  *)
(* they were: a reverted call is a step that changes nothing.  The revert  *)
(* reason a call ends with is the value of the handler's ...Error operator *)
(* in the state the call is made in (OK when every require passes).        *)
(* Task ids are the strings of Keys, senders the addresses of Addrs, and   *)
(* ZeroAddress stands for address(0), which never is msg.sender.  The      *)
(* requester of a task is stored and logged but never read by a require,   *)
(* so tasks are created by the one address of Clients; every address may   *)
(* call assignTask and submitTaskResult.  Ciphertext handles (bytes32) are *)
(* the identifiers of Handles, NoHandle the uninitialized handle.  uint256 *)
(* counters stay far below 2^256 here (one completion per task at most),   *)
(* so checked arithmetic never reverts.  `lapsed` is a history variable:   *)
(* the keys whose task has been active past its deadline in some state so  *)
(* far; no handler reads it.                                               *)
(***************************************************************************)
EXTENDS Integers, Sequences, FiniteSets, TLC

(* ---- bounds of the model ---- *)
MaxTime == 2
MaxCreate == 2

(* ---- program constants ---- *)
ReputationDelta == 10

ZeroAddress == "0x0"
NoHandle == "h0"

Keys == {"t1", "t2"}
Clients == {"c1"}
Workers == {"w1", "w2"}
Addrs == Clients \cup Workers
Handles == {"h1", "h2"}
Titles == {"", "a"}
Rewards == {100}
Deadlines == {1, 2}
Times == 1..MaxTime

(* ---- revert reasons, named as the error kinds of the ledger ---- *)
OK == "OK"
DuplicateKey == "Task already exists"
InvalidCiphertext == "Invalid encrypted input"
AlreadyRegistered == "Worker already registered"
NotFound == "Task does not exist"
NotActive == "Task is not active"
AlreadyAssigned == "Task already assigned"
WorkerNotRegistered == "Worker not registered"
NotAssignedWorker == "Not assigned to this worker"
AlreadyCompleted == "Task already completed"
DeadlineExceeded == "Task deadline passed"
InvalidProof == "Invalid KMS signatures"

VARIABLES tasks, workers, taskAssignments, taskIds, workerAddresses,
          events, aclAllowed, publiclyDecryptable, now, lapsed

ledgerVars == <<tasks, workers, taskAssignments, taskIds, workerAddresses,
                events, aclAllowed, publiclyDecryptable>>
vars == <<tasks, workers, taskAssignments, taskIds, workerAddresses,
          events, aclAllowed, publiclyDecryptable, now, lapsed>>

(* The zero value every key of mapping(string => Task) starts with. *)
ZeroTask == [title |-> "", encryptedData |-> NoHandle, rewardAmount |-> 0,
             deadline |-> 0, requester |-> ZeroAddress,
             isActive |-> FALSE, isCompleted |-> FALSE]

(* The zero value every key of mapping(address => Worker) starts with. *)
ZeroWorker == [workerAddress |-> ZeroAddress, reputation |-> 0, completedTasks |-> 0]

Range(s) == {s[i] : i \in 1..Len(s)}

(* ---- the external cryptographic service (FHE library) ---- *)

(* The uint32 cleartext the KMS decrypts a handle to. *)
Decrypt(h) == IF h = "h1" THEN 41 ELSE 42

(* An input proof names the external handle it attests; NoHandle is a     *)
(* proof that attests nothing.  A computation proof names the handle list *)
(* and the cleartext encoding the KMS signed; NoProof carries no valid    *)
(* signature.                                                             *)
NoProof == [handles |-> <<>>, result |-> 0]

KmsSignature(h) == [handles |-> <<h>>, result |-> Decrypt(h)]

(* FHE.fromExternal reverts unless the input proof attests the external   *)
(* handle, and returns the handle it was given.                           *)
fromExternalReverts(encryptedData, inputProof) == inputProof # encryptedData

fromExternal(encryptedData, inputProof) == encryptedData

isInitialized(h) == h # NoHandle

toBytes32(h) == h

(* FHE.checkSignatures passes iff the proof is a KMS signature over       *)
(* exactly the handle list cts and the cleartext encoding given.          *)
(* A verifier that keeps state: it refuses a handle list naming the       *)
(* handle of a task already completed.                                    *)
checkSignatures_OneShot(cts, abiEncodedResult, computationProof) ==
    /\ computationProof # NoProof
    /\ computationProof.handles = cts
    /\ computationProof.result = abiEncodedResult
    /\ ~\E k \in Keys : tasks[k].isCompleted /\ <<tasks[k].encryptedData>> = cts

checkSignatures(cts, abiEncodedResult, computationProof) ==
    /\ computationProof # NoProof
    /\ computationProof.handles = cts
    /\ computationProof.result = abiEncodedResult

(* The ingest requests a client presents: an attested handle, the         *)
(* uninitialized handle, and a handle whose proof attests nothing.        *)
IngestRequests ==
    {<<h, h>> : h \in Handles} \cup {<<NoHandle, NoHandle>>, <<"h1", NoHandle>>}

(* The disclosures a worker presents: the KMS-signed opening of a handle, *)
(* a cleartext with no signature, and a signed proof with another         *)
(* cleartext than the signed one.                                         *)
Disclosures ==
    {<<Decrypt(h), KmsSignature(h)>> : h \in Handles}
        \cup {<<Decrypt("h1"), NoProof>>, <<Decrypt("h2"), KmsSignature("h1")>>}

(* ---- construction ---- *)
Init ==
    /\ tasks = [k \in Keys |-> ZeroTask]
    /\ workers = [a \in Addrs |-> ZeroWorker]
    /\ taskAssignments = [k \in Keys |-> ZeroAddress]
    /\ taskIds = <<>>
    /\ workerAddresses = <<>>
    /\ events = <<>>
    /\ aclAllowed = {}
    /\ publiclyDecryptable = {}
    /\ now = 1
    /\ lapsed = {}

(* A reverted transaction: no storage write and no log. *)
Revert ==
    /\ UNCHANGED ledgerVars
    /\ UNCHANGED now

(* ---- createTask ---- *)
createTaskError(taskId, encryptedData, inputProof) ==
    IF Len(tasks[taskId].title) # 0 THEN DuplicateKey
    ELSE IF fromExternalReverts(encryptedData, inputProof) THEN InvalidCiphertext
    ELSE IF ~isInitialized(fromExternal(encryptedData, inputProof)) THEN InvalidCiphertext
    ELSE OK

(* createTask without `FHE.makePubliclyDecryptable(encryptedData)`. *)
createTaskCommit_NoDisclosable(sender, taskId, title, encryptedData, inputProof, rewardAmount, deadline) ==
    /\ tasks' = [tasks EXCEPT ![taskId] =
                    [title |-> title,
                     encryptedData |-> fromExternal(encryptedData, inputProof),
                     rewardAmount |-> rewardAmount,
                     deadline |-> deadline,
                     requester |-> sender,
                     isActive |-> TRUE,
                     isCompleted |-> FALSE]]
    /\ aclAllowed' = aclAllowed \cup {fromExternal(encryptedData, inputProof)}
    /\ taskIds' = Append(taskIds, taskId)
    /\ events' = Append(events, [name |-> "TaskCreated", taskId |-> taskId, who |-> sender])
    /\ UNCHANGED <<workers, taskAssignments, workerAddresses, publiclyDecryptable, now>>

createTaskCommit(sender, taskId, title, encryptedData, inputProof, rewardAmount, deadline) ==
    /\ tasks' = [tasks EXCEPT ![taskId] =
                    [title |-> title,
                     encryptedData |-> fromExternal(encryptedData, inputProof),
                     rewardAmount |-> rewardAmount,
                     deadline |-> deadline,
                     requester |-> sender,
                     isActive |-> TRUE,
                     isCompleted |-> FALSE]]
    /\ aclAllowed' = aclAllowed \cup {fromExternal(encryptedData, inputProof)}
    /\ publiclyDecryptable' =
           publiclyDecryptable \cup {fromExternal(encryptedData, inputProof)}
    /\ taskIds' = Append(taskIds, taskId)
    /\ events' = Append(events, [name |-> "TaskCreated", taskId |-> taskId, who |-> sender])
    /\ UNCHANGED <<workers, taskAssignments, workerAddresses, now>>

(* createTask that writes the record before it validates the ciphertext   *)
(* and keeps the record when the ciphertext is refused.                   *)
createTask_StoresBeforeCheck(sender, taskId, title, encryptedData, inputProof, rewardAmount, deadline) ==
    LET err == createTaskError(taskId, encryptedData, inputProof)
    IN  IF err = OK
        THEN /\ Len(taskIds) < MaxCreate
             /\ createTaskCommit(sender, taskId, title, encryptedData, inputProof,
                                 rewardAmount, deadline)
        ELSE IF err = InvalidCiphertext
        THEN /\ tasks' = [tasks EXCEPT ![taskId] =
                             [ZeroTask EXCEPT !.title = title, !.rewardAmount = rewardAmount,
                                              !.deadline = deadline, !.requester = sender]]
             /\ UNCHANGED <<workers, taskAssignments, taskIds, workerAddresses, events,
                            aclAllowed, publiclyDecryptable, now>>
        ELSE Revert

createTask(sender, taskId, title, encryptedData, inputProof, rewardAmount, deadline) ==
    LET err == createTaskError(taskId, encryptedData, inputProof)
    IN  IF err = OK
        THEN /\ Len(taskIds) < MaxCreate
             /\ createTaskCommit(sender, taskId, title, encryptedData, inputProof,
                                 rewardAmount, deadline)
        ELSE Revert

(* ---- registerWorker ---- *)
(* registerWorker without its require. *)
registerWorkerError_NoCheck(sender) == OK

registerWorkerError(sender) ==
    IF workers[sender].workerAddress # ZeroAddress THEN AlreadyRegistered ELSE OK

registerWorkerCommit(sender) ==
    /\ workers' = [workers EXCEPT ![sender] =
                      [workerAddress |-> sender, reputation |-> 0, completedTasks |-> 0]]
    /\ workerAddresses' = Append(workerAddresses, sender)
    /\ UNCHANGED <<tasks, taskAssignments, taskIds, events, aclAllowed,
                   publiclyDecryptable, now>>

registerWorker(sender) ==
    LET err == registerWorkerError(sender)
    IN  IF err = OK
        THEN registerWorkerCommit(sender)
        ELSE Revert

(* ---- assignTask ---- *)
(* assignTask without `require(taskAssignments[taskId] == address(0))`. *)
assignTaskError_NoAssignedCheck(sender, taskId) ==
    IF ~(Len(tasks[taskId].title) > 0) THEN NotFound
    ELSE IF ~tasks[taskId].isActive THEN NotActive
    ELSE IF workers[sender].workerAddress = ZeroAddress THEN WorkerNotRegistered
    ELSE OK

(* assignTask without `require(workers[msg.sender].workerAddress != address(0))`. *)
assignTaskError_NoRegisteredCheck(sender, taskId) ==
    IF ~(Len(tasks[taskId].title) > 0) THEN NotFound
    ELSE IF ~tasks[taskId].isActive THEN NotActive
    ELSE IF taskAssignments[taskId] # ZeroAddress THEN AlreadyAssigned
    ELSE OK

assignTaskError(sender, taskId) ==
    IF ~(Len(tasks[taskId].title) > 0) THEN NotFound
    ELSE IF ~tasks[taskId].isActive THEN NotActive
    ELSE IF taskAssignments[taskId] # ZeroAddress THEN AlreadyAssigned
    ELSE IF workers[sender].workerAddress = ZeroAddress THEN WorkerNotRegistered
    ELSE OK

(* assignTask without `emit TaskAssigned(taskId, msg.sender)`. *)
assignTaskCommit_NoEmit(sender, taskId) ==
    /\ taskAssignments' = [taskAssignments EXCEPT ![taskId] = sender]
    /\ UNCHANGED <<tasks, workers, taskIds, workerAddresses, events, aclAllowed,
                   publiclyDecryptable, now>>

assignTaskCommit(sender, taskId) ==
    /\ taskAssignments' = [taskAssignments EXCEPT ![taskId] = sender]
    /\ events' = Append(events, [name |-> "TaskAssigned", taskId |-> taskId, who |-> sender])
    /\ UNCHANGED <<tasks, workers, taskIds, workerAddresses, aclAllowed,
                   publiclyDecryptable, now>>

assignTask(sender, taskId) ==
    LET err == assignTaskError(sender, taskId)
    IN  IF err = OK
        THEN assignTaskCommit(sender, taskId)
        ELSE Revert

(* ---- submitTaskResult ---- *)
(* The deadline test with < for <=. *)
deadlinePassed_Strict(timestamp, deadline) == ~(timestamp < deadline)

deadlinePassed(timestamp, deadline) == ~(timestamp <= deadline)

(* submitTaskResult without `require(!tasks[taskId].isCompleted)`. *)
submitTaskResultError_NoCompletedCheck(sender, taskId, abiEncodedResult, computationProof) ==
    IF ~(Len(tasks[taskId].title) > 0) THEN NotFound
    ELSE IF taskAssignments[taskId] # sender THEN NotAssignedWorker
    ELSE IF deadlinePassed(now, tasks[taskId].deadline) THEN DeadlineExceeded
    ELSE IF ~checkSignatures(<<toBytes32(tasks[taskId].encryptedData)>>, abiEncodedResult,
                             computationProof) THEN InvalidProof
    ELSE OK

submitTaskResultError(sender, taskId, abiEncodedResult, computationProof) ==
    IF ~(Len(tasks[taskId].title) > 0) THEN NotFound
    ELSE IF taskAssignments[taskId] # sender THEN NotAssignedWorker
    ELSE IF tasks[taskId].isCompleted THEN AlreadyCompleted
    ELSE IF deadlinePassed(now, tasks[taskId].deadline) THEN DeadlineExceeded
    ELSE IF ~checkSignatures(<<toBytes32(tasks[taskId].encryptedData)>>, abiEncodedResult,
                             computationProof) THEN InvalidProof
    ELSE OK

(* submitTaskResult that forgets `tasks[taskId].isActive = false`. *)
submitTaskResultCommit_KeepsActive(sender, taskId) ==
    /\ tasks' = [tasks EXCEPT ![taskId].isCompleted = TRUE]
    /\ workers' = [workers EXCEPT
                      ![sender].completedTasks = @ + 1,
                      ![sender].reputation = @ + ReputationDelta]
    /\ events' = Append(events, [name |-> "TaskCompleted", taskId |-> taskId, who |-> sender])
    /\ UNCHANGED <<taskAssignments, taskIds, workerAddresses, aclAllowed,
                   publiclyDecryptable, now>>

(* submitTaskResult that forgets `workers[msg.sender].completedTasks++`. *)
submitTaskResultCommit_NoCount(sender, taskId) ==
    /\ tasks' = [tasks EXCEPT ![taskId].isCompleted = TRUE,
                              ![taskId].isActive = FALSE]
    /\ workers' = [workers EXCEPT ![sender].reputation = @ + ReputationDelta]
    /\ events' = Append(events, [name |-> "TaskCompleted", taskId |-> taskId, who |-> sender])
    /\ UNCHANGED <<taskAssignments, taskIds, workerAddresses, aclAllowed,
                   publiclyDecryptable, now>>

(* submitTaskResult that also deletes the assignment of the completed task. *)
submitTaskResultCommit_ClearsAssignment(sender, taskId) ==
    /\ tasks' = [tasks EXCEPT ![taskId].isCompleted = TRUE,
                              ![taskId].isActive = FALSE]
    /\ workers' = [workers EXCEPT
                      ![sender].completedTasks = @ + 1,
                      ![sender].reputation = @ + ReputationDelta]
    /\ taskAssignments' = [taskAssignments EXCEPT ![taskId] = ZeroAddress]
    /\ events' = Append(events, [name |-> "TaskCompleted", taskId |-> taskId, who |-> sender])
    /\ UNCHANGED <<taskIds, workerAddresses, aclAllowed, publiclyDecryptable, now>>

submitTaskResultCommit(sender, taskId) ==
    /\ tasks' = [tasks EXCEPT ![taskId].isCompleted = TRUE,
                              ![taskId].isActive = FALSE]
    /\ workers' = [workers EXCEPT
                      ![sender].completedTasks = @ + 1,
                      ![sender].reputation = @ + ReputationDelta]
    /\ events' = Append(events, [name |-> "TaskCompleted", taskId |-> taskId, who |-> sender])
    /\ UNCHANGED <<taskAssignments, taskIds, workerAddresses, aclAllowed,
                   publiclyDecryptable, now>>

(* submitTaskResult that writes the completion before FHE.checkSignatures *)
(* and keeps the writes when the signatures are refused.                  *)
submitTaskResult_WritesBeforeVerify(sender, taskId, abiEncodedResult, computationProof) ==
    LET err == submitTaskResultError(sender, taskId, abiEncodedResult, computationProof)
    IN  IF err \in {OK, InvalidProof}
        THEN submitTaskResultCommit(sender, taskId)
        ELSE Revert

submitTaskResult(sender, taskId, abiEncodedResult, computationProof) ==
    LET err == submitTaskResultError(sender, taskId, abiEncodedResult, computationProof)
    IN  IF err = OK
        THEN submitTaskResultCommit(sender, taskId)
        ELSE Revert

(* ---- the disclosed cleartext of a task ---- *)
(* struct Task has no field for the cleartext and submitTaskResult writes *)
(* abiEncodedResult to no storage slot: the ledger holds no disclosed     *)
(* value for any task, written here as the empty sequence.                *)
disclosedValue(taskId) == <<>>

(* ---- getTask (view) ---- *)
getTask(taskId) ==
    IF ~(Len(tasks[taskId].title) > 0) THEN NotFound
    ELSE <<tasks[taskId].title, tasks[taskId].rewardAmount, tasks[taskId].deadline,
           tasks[taskId].requester, tasks[taskId].isActive, tasks[taskId].isCompleted>>

(* The require of getTask. *)
getTaskError(taskId) ==
    IF ~(Len(tasks[taskId].title) > 0) THEN NotFound ELSE OK

(* ---- getWorker (view) ---- *)
getWorkerError(workerAddress) ==
    IF ~(workers[workerAddress].workerAddress # ZeroAddress) THEN WorkerNotRegistered ELSE OK

getWorker(workerAddress) ==
    IF getWorkerError(workerAddress) # OK THEN WorkerNotRegistered
    ELSE <<workers[workerAddress].reputation, workers[workerAddress].completedTasks>>

(* ---- getAllTaskIds, getAllWorkers (views) ---- *)
getAllTaskIds == taskIds

getAllWorkers == workerAddresses

(* ---- block.timestamp moves forward between transactions ---- *)
Tick ==
    /\ now < MaxTime
    /\ now' = now + 1
    /\ UNCHANGED ledgerVars

CreateTaskCall ==
    \E sender \in Clients, taskId \in Keys, title \in Titles, req \in IngestRequests,
       rewardAmount \in Rewards, deadline \in Deadlines :
        createTask(sender, taskId, title, req[1], req[2], rewardAmount, deadline)

RegisterWorkerCall == \E sender \in Workers : registerWorker(sender)

AssignTaskCall == \E sender \in Addrs, taskId \in Keys : assignTask(sender, taskId)

SubmitTaskResultCall ==
    \E sender \in Addrs, taskId \in Keys, d \in Disclosures :
        submitTaskResult(sender, taskId, d[1], d[2])

(* The keys whose task is active while block.timestamp is past its deadline. *)
Lapsing == {k \in Keys : tasks[k].isActive /\ now > tasks[k].deadline}

(* The history variable records the keys that are lapsing after the step. *)
Observe == lapsed' = lapsed \cup Lapsing'

Next ==
    \/ CreateTaskCall /\ Observe
    \/ RegisterWorkerCall /\ Observe
    \/ AssignTaskCall /\ Observe
    \/ SubmitTaskResultCall /\ Observe
    \/ Tick /\ Observe

Spec == Init /\ [][Next]_vars

(* ---- helpers of the properties ---- *)

(* The keys on which a createTask has succeeded: each success pushes its key. *)
Created(taskId) == taskId \in Range(taskIds)

EventsOf(name, taskId) ==
    {i \in 1..Len(events) : events[i].name = name /\ events[i].taskId = taskId}

(* ---- C1 ---- *)
(* C1: for every task isActive and isCompleted are never both true, and a  *)
(* task whose isCompleted is true keeps it true in every later state.      *)
C1_PhaseFlags ==
    /\ [](\A k \in Keys : ~(tasks[k].isActive /\ tasks[k].isCompleted))
    /\ [][\A k \in Keys : tasks[k].isCompleted => tasks'[k].isCompleted]_vars

(* A task is completed and a later transaction has committed after that. *)
C1_Witness ==
    \E k \in Keys : \E i \in EventsOf("TaskCompleted", k) :
        /\ i < Len(events)
        /\ tasks[k].isCompleted
        /\ ~tasks[k].isActive

(* ---- C2 ---- *)
(* C2: on every key a createTask has succeeded on, whatever the title, a   *)
(* further createTask fails with DuplicateKey and changes nothing of the   *)
(* ledger.                                                                 *)
C2_SecondCreateRejected ==
    [][UNCHANGED vars \/ \A k \in Keys : Created(k) =>
          \A sender \in Clients, title \in Titles, req \in IngestRequests,
             rewardAmount \in Rewards, deadline \in Deadlines :
              createTask(sender, k, title, req[1], req[2], rewardAmount, deadline)
                  => /\ createTaskError(k, req[1], req[2]) = DuplicateKey
                     /\ UNCHANGED ledgerVars]_vars

(* ---- C3 ---- *)
(* C3: a task key has at most one recorded assignment, made by the one     *)
(* TaskAssigned of that key, and a key's assignee, once recorded, is the   *)
(* same worker in every later state.                                       *)
C3_AssignmentPermanent ==
    /\ [](\A k \in Keys :
              /\ Cardinality(EventsOf("TaskAssigned", k)) <= 1
              /\ \A i \in EventsOf("TaskAssigned", k) : events[i].who = taskAssignments[k]
              /\ taskAssignments[k] # ZeroAddress => EventsOf("TaskAssigned", k) # {})
    /\ [][\A k \in Keys : taskAssignments[k] # ZeroAddress
              => taskAssignments'[k] = taskAssignments[k]]_vars

(* A task was assigned and later transactions have committed since. *)
C3_Witness ==
    \E k \in Keys : \E i \in EventsOf("TaskAssigned", k) :
        /\ i < Len(events)
        /\ taskAssignments[k] \in Workers

(* ---- C4 ---- *)
Registered(a) == workers[a].workerAddress # ZeroAddress

(* C4: when two registered workers each call assignTask on the same       *)
(* active, unassigned task, the call serialized first succeeds and makes  *)
(* its sender the assignee, and the other call fails with AlreadyAssigned *)
(* and leaves that assignee.                                              *)
C4_ExactlyOneAssignWins ==
    /\ [](\A k \in Keys : \A w \in Addrs :
              (Created(k) /\ tasks[k].isActive /\ taskAssignments[k] = ZeroAddress
                  /\ Registered(w))
              => assignTaskError(w, k) = OK)
    /\ [][\A k \in Keys : \A w1 \in Addrs, w2 \in Addrs :
              (w1 # w2 /\ Registered(w1) /\ Registered(w2) /\ assignTask(w1, k)
                  /\ taskAssignments[k] = ZeroAddress /\ taskAssignments'[k] # ZeroAddress)
              => /\ taskAssignments'[k] = w1
                 /\ (assignTaskError(w2, k))' = AlreadyAssigned]_vars
    /\ [][\A k \in Keys : \A w2 \in Addrs :
              (taskAssignments[k] # ZeroAddress /\ assignTask(w2, k))
              => taskAssignments'[k] = taskAssignments[k]]_vars

(* ---- C5 ---- *)
(* C5: on a task that exists, submitTaskResult by a sender who is not the  *)
(* recorded assignee (also when nobody is assigned) fails with             *)
(* NotAssignedWorker whatever the proof and the time, and changes no task  *)
(* and no worker record.                                                   *)
C5_NonAssigneeRejected ==
    /\ [](\A k \in Keys : \A sender \in Addrs : \A d \in Disclosures :
              (Created(k) /\ taskAssignments[k] # sender)
              => submitTaskResultError(sender, k, d[1], d[2]) = NotAssignedWorker)
    /\ [][\A k \in Keys : \A sender \in Addrs : \A d \in Disclosures :
              (Created(k) /\ taskAssignments[k] # sender
                  /\ submitTaskResult(sender, k, d[1], d[2]))
              => UNCHANGED <<tasks, workers>>]_vars

(* ---- C6 ---- *)
(* The disclosure that opens the handle stored on a task. *)
Opening(taskId) ==
    <<Decrypt(tasks[taskId].encryptedData), KmsSignature(tasks[taskId].encryptedData)>>

(* C6: for the assignee of an uncompleted task, submitTaskResult at a time *)
(* after the deadline fails with DeadlineExceeded also with the proof that *)
(* verifies, and no task becomes completed after its deadline; at a time   *)
(* equal to the deadline the deadline check passes, so the verifying proof *)
(* is accepted and any other is refused as InvalidProof.                   *)
C6_DeadlineEnforced ==
    /\ [](\A k \in Keys :
              (taskAssignments[k] # ZeroAddress /\ ~tasks[k].isCompleted)
              => LET w == taskAssignments[k] IN
                 /\ now > tasks[k].deadline
                        => \A d \in Disclosures \cup {Opening(k)} :
                              submitTaskResultError(w, k, d[1], d[2]) = DeadlineExceeded
                 /\ now = tasks[k].deadline
                        => /\ submitTaskResultError(w, k, Opening(k)[1], Opening(k)[2]) = OK
                           /\ \A d \in Disclosures :
                                  submitTaskResultError(w, k, d[1], d[2]) \in {OK, InvalidProof})
    /\ [][\A k \in Keys : (~tasks[k].isCompleted /\ tasks'[k].isCompleted)
              => now <= tasks[k].deadline]_vars

(* An assigned, uncompleted task is past its deadline while the proof that *)
(* opens its handle is at hand, and another task was completed in time.    *)
C6_Witness ==
    /\ \E k \in Keys :
          /\ taskAssignments[k] \in Workers
          /\ ~tasks[k].isCompleted
          /\ now > tasks[k].deadline
          /\ checkSignatures(<<toBytes32(tasks[k].encryptedData)>>, Opening(k)[1], Opening(k)[2])
    /\ \E k \in Keys : tasks[k].isCompleted

(* ---- C7 ---- *)
TaskCompletedEvent(taskId, who) == [name |-> "TaskCompleted", taskId |-> taskId, who |-> who]

(* C7: a submitTaskResult whose requires all pass and whose proof verifies *)
(* sets isCompleted, clears isActive, adds 1 to the assignee's             *)
(* completedTasks and 10 to its reputation and logs TaskCompleted once;    *)
(* after create t1, register w1, assign t1 to w1 and that submit,          *)
(* t1.isCompleted is true, w1.completedTasks is 1 and w1.reputation 10.    *)
C7_SuccessfulSubmit ==
    /\ [][UNCHANGED vars \/ \A k \in Keys : \A sender \in Addrs : \A d \in Disclosures :
              (submitTaskResultError(sender, k, d[1], d[2]) = OK
                  /\ submitTaskResult(sender, k, d[1], d[2]))
              => /\ sender = taskAssignments[k]
                 /\ tasks'[k].isCompleted /\ ~tasks'[k].isActive
                 /\ workers'[sender].completedTasks = workers[sender].completedTasks + 1
                 /\ workers'[sender].reputation = workers[sender].reputation + 10
                 /\ events' = Append(events, TaskCompletedEvent(k, sender))]_vars
    /\ [][\A k \in Keys : (~tasks[k].isCompleted /\ tasks'[k].isCompleted)
              => \E d \in Disclosures :
                    submitTaskResultError(taskAssignments[k], k, d[1], d[2]) = OK]_vars
    /\ [](events = << [name |-> "TaskCreated", taskId |-> "t1", who |-> "c1"],
                      [name |-> "TaskAssigned", taskId |-> "t1", who |-> "w1"],
                      TaskCompletedEvent("t1", "w1") >>
              => /\ tasks["t1"].isCompleted
                 /\ workers["w1"].completedTasks = 1
                 /\ workers["w1"].reputation = 10
                 /\ Cardinality(EventsOf("TaskCompleted", "t1")) = 1)

(* The end-to-end scenario has run: t1 created, w1 registered and         *)
(* assigned, and w1's submit accepted.                                    *)
C7_Witness ==
    events = << [name |-> "TaskCreated", taskId |-> "t1", who |-> "c1"],
                [name |-> "TaskAssigned", taskId |-> "t1", who |-> "w1"],
                TaskCompletedEvent("t1", "w1") >>

(* ---- C8 ---- *)
(* C8: a submitTaskResult that fails, with any of its revert reasons,     *)
(* changes nothing of the ledger and logs nothing, so getTask returns the *)
(* same before and after; the task flags, the worker counters and the     *)
(* TaskCompleted log change only in a call all of whose checks pass.      *)
C8_FailedSubmitChangesNothing ==
    /\ [][UNCHANGED vars \/ \A k \in Keys : \A sender \in Addrs : \A d \in Disclosures :
              (submitTaskResultError(sender, k, d[1], d[2]) # OK
                  /\ submitTaskResult(sender, k, d[1], d[2]))
              => /\ UNCHANGED ledgerVars
                 /\ getTask(k)' = getTask(k)]_vars
    /\ [][\A k \in Keys :
              (tasks'[k].isCompleted # tasks[k].isCompleted
                  \/ EventsOf("TaskCompleted", k)' # EventsOf("TaskCompleted", k))
              => \E d \in Disclosures :
                    submitTaskResultError(taskAssignments[k], k, d[1], d[2]) = OK]_vars
    /\ [][(\E a \in Addrs : workers'[a].completedTasks # workers[a].completedTasks
                                \/ (Registered(a) /\ workers'[a] # workers[a]))
              => \E k \in Keys : \E d \in Disclosures :
                    submitTaskResultError(taskAssignments[k], k, d[1], d[2]) = OK]_vars

(* A state in which submits fail for three different reasons: a completed *)
(* task, a non-assignee, and a refused proof on a task still open.        *)
C8_Witness ==
    /\ \E k \in Keys : \E sender \in Addrs : \E d \in Disclosures :
          submitTaskResultError(sender, k, d[1], d[2]) = InvalidProof
    /\ \E k \in Keys : \E sender \in Addrs : \E d \in Disclosures :
          submitTaskResultError(sender, k, d[1], d[2]) = AlreadyCompleted
    /\ \E k \in Keys : \E sender \in Addrs : \E d \in Disclosures :
          submitTaskResultError(sender, k, d[1], d[2]) = NotAssignedWorker

(* ---- C9 ---- *)
(* C9: a submitTaskResult on task t1 by t1's assignee with the proof that *)
(* opens the handle of another task t2 fails, and t1 stays active and     *)
(* uncompleted.                                                           *)
C9_ForeignProofRejected ==
    [][UNCHANGED vars \/ \A t1 \in Keys, t2 \in Keys :
          (t1 # t2 /\ Created(t1) /\ Created(t2)
              /\ taskAssignments[t1] # ZeroAddress /\ tasks[t1].isActive
              /\ submitTaskResult(taskAssignments[t1], t1, Opening(t2)[1], Opening(t2)[2]))
          => /\ submitTaskResultError(taskAssignments[t1], t1,
                                      Opening(t2)[1], Opening(t2)[2]) # OK
             /\ tasks'[t1].isActive
             /\ ~tasks'[t1].isCompleted]_vars

(* ---- C10 ---- *)
(* C10: no two tasks hold the same ciphertext handle. *)
C10_HandleOwnedByOneTask ==
    \A k1 \in Keys, k2 \in Keys :
        (k1 # k2 /\ Created(k1) /\ Created(k2))
        => tasks[k1].encryptedData # tasks[k2].encryptedData

(* ---- C11 ---- *)
(* C11: the disclosed value of a task is absent until a submitTaskResult  *)
(* with a verified proof succeeds for it, and after that success the      *)
(* ledger holds, for the task, the cleartext that the proof opened.       *)
C11_DisclosedValueStored ==
    /\ [](\A k \in Keys : ~tasks[k].isCompleted => disclosedValue(k) = <<>>)
    /\ [][UNCHANGED vars \/ \A k \in Keys : \A sender \in Addrs : \A d \in Disclosures :
              (submitTaskResultError(sender, k, d[1], d[2]) = OK
                  /\ submitTaskResult(sender, k, d[1], d[2]))
              => disclosedValue(k)' = <<d[1]>>]_vars

(* ---- C12 ---- *)
(* C12: on a completed task every submitTaskResult by its assignee fails  *)
(* with AlreadyCompleted whatever the proof and the time; a worker's      *)
(* counters change only in a step that completes a task of that worker    *)
(* that was not completed before; the log holds at most one TaskCompleted *)
(* per key.                                                               *)
C12_CompletionOneShot ==
    /\ [](\A k \in Keys : tasks[k].isCompleted =>
              /\ taskAssignments[k] # ZeroAddress
              /\ \A d \in Disclosures \cup {Opening(k)} :
                    submitTaskResultError(taskAssignments[k], k, d[1], d[2]) = AlreadyCompleted
              /\ Cardinality(EventsOf("TaskCompleted", k)) = 1)
    /\ [](\A k \in Keys : Cardinality(EventsOf("TaskCompleted", k)) <= 1)
    /\ [][\A w \in Addrs :
              (Registered(w) /\ workers'[w] # workers[w])
              => /\ workers'[w].completedTasks = workers[w].completedTasks + 1
                 /\ workers'[w].reputation = workers[w].reputation + ReputationDelta
                 /\ \E k \in Keys : /\ taskAssignments[k] = w
                                     /\ ~tasks[k].isCompleted
                                     /\ tasks'[k].isCompleted]_vars

(* A task is completed while its deadline has not passed and the proof    *)
(* that opens its handle is at hand: only the completed check stops a     *)
(* second submit.                                                         *)
C12_Witness ==
    \E k \in Keys :
        /\ tasks[k].isCompleted
        /\ now <= tasks[k].deadline
        /\ checkSignatures(<<toBytes32(tasks[k].encryptedData)>>, Opening(k)[1], Opening(k)[2])
        /\ \E i \in EventsOf("TaskCompleted", k) : i < Len(events)

(* ---- C13 ---- *)
(* C13: assignTask reports the first failing check in the order: the task *)
(* exists (NotFound), it is active (NotActive), it has no assignee        *)
(* (AlreadyAssigned), the caller is registered (WorkerNotRegistered).     *)
C13_AssignCheckOrder ==
    \A k \in Keys : \A sender \in Addrs :
        assignTaskError(sender, k) =
            IF ~Created(k) THEN NotFound
            ELSE IF ~tasks[k].isActive THEN NotActive
            ELSE IF taskAssignments[k] # ZeroAddress THEN AlreadyAssigned
            ELSE IF ~Registered(sender) THEN WorkerNotRegistered
            ELSE OK

(* ---- C14 ---- *)
(* C14: registerWorker by a registered identity fails with                *)
(* AlreadyRegistered and leaves the worker's counters and the worker list *)
(* as they are; a registered identity stays registered.                   *)
C14_DuplicateRegistrationRejected ==
    /\ [](\A a \in Addrs : Registered(a) => registerWorkerError(a) = AlreadyRegistered)
    /\ [][UNCHANGED vars \/ \A a \in Addrs :
              (Registered(a) /\ registerWorker(a))
              => UNCHANGED <<workers, workerAddresses>>]_vars
    /\ [][\A a \in Addrs : Registered(a)
              => /\ Registered(a)'
                 /\ Len(workerAddresses') >= Len(workerAddresses)
                 /\ \A i \in 1..Len(workerAddresses) : workerAddresses'[i] = workerAddresses[i]]_vars

(* A registered worker has completed a task, so that a second            *)
(* registration, were it accepted, would reset counters that are not 0.   *)
C14_Witness ==
    \E a \in Workers :
        /\ Registered(a)
        /\ workers[a].completedTasks = 1
        /\ workers[a].reputation = 10

(* ---- C15 ---- *)
(* C15: no step lowers the reputation or the completedTasks of a worker. *)
C15_CountersMonotone ==
    [][\A a \in Addrs :
          /\ workers'[a].reputation >= workers[a].reputation
          /\ workers'[a].completedTasks >= workers[a].completedTasks]_vars

(* A worker has counters above 0 and the other worker registered after   *)
(* that worker's completion.                                              *)
C15_Witness ==
    \E a \in Workers, b \in Workers :
        /\ a # b
        /\ workers[a].completedTasks > 0
        /\ workers[a].reputation > 0
        /\ Registered(b)
        /\ workerAddresses = <<a, b>>

(* ---- C16 ---- *)
(* The step logs exactly the event (name, taskId, who) after the events   *)
(* logged so far.                                                         *)
Emits(name, taskId, who) ==
    events' = Append(events, [name |-> name, taskId |-> taskId, who |-> who])

(* What createTask, assignTask and submitTaskResult log: one event with   *)
(* the key and the caller when the call succeeds, nothing when it fails.  *)
TaskEntryPointsEmit ==
    /\ \A k \in Keys : \A title \in Titles : \A req \in IngestRequests :
       \A deadline \in Deadlines : \A sender \in Clients : \A rewardAmount \in Rewards :
           createTask(sender, k, title, req[1], req[2], rewardAmount, deadline)
           => IF createTaskError(k, req[1], req[2]) = OK
              THEN Emits("TaskCreated", k, sender)
              ELSE events' = events
    /\ \A k \in Keys : \A sender \in Addrs :
           assignTask(sender, k)
           => IF assignTaskError(sender, k) = OK
              THEN Emits("TaskAssigned", k, sender)
              ELSE events' = events
    /\ \A k \in Keys : \A sender \in Addrs : \A d \in Disclosures :
           submitTaskResult(sender, k, d[1], d[2])
           => IF submitTaskResultError(sender, k, d[1], d[2]) = OK
              THEN Emits("TaskCompleted", k, sender)
              ELSE events' = events

(* C16 as claimed: each of createTask, registerWorker, assignTask and     *)
(* submitTaskResult logs exactly one event when it succeeds and none when *)
(* it fails, and the log only grows at its end.                           *)
C16_EveryEntryPointEmits ==
    [][UNCHANGED vars \/
          /\ TaskEntryPointsEmit
          /\ \A sender \in Addrs :
                 registerWorker(sender)
                 => IF registerWorkerError(sender) = OK
                    THEN Len(events') = Len(events) + 1
                    ELSE events' = events]_vars

(* C16: createTask, assignTask and submitTaskResult each log exactly one  *)
(* event (TaskCreated, TaskAssigned, TaskCompleted) with the task key and *)
(* the caller when they succeed and none when they fail; registerWorker   *)
(* logs no event, successful or not; every step keeps the events logged   *)
(* so far in their places, so the log is in commit order.                 *)
C16_TaskEntryPointsEmit ==
    /\ [][UNCHANGED vars \/
              /\ TaskEntryPointsEmit
              /\ \A sender \in Addrs : registerWorker(sender) => events' = events]_vars
    /\ [][/\ Len(events') >= Len(events)
          /\ \A i \in 1..Len(events) : events'[i] = events[i]]_vars

(* The three task events of one key are in the log in commit order, after *)
(* a registration that logged nothing.                                    *)
C16_Witness ==
    \E k \in Keys : \E w \in Workers : \E c \in Clients :
        /\ workerAddresses = <<w>>
        /\ events = << [name |-> "TaskCreated", taskId |-> k, who |-> c],
                       [name |-> "TaskAssigned", taskId |-> k, who |-> w],
                       [name |-> "TaskCompleted", taskId |-> k, who |-> w] >>

(* ---- C17 ---- *)
(* C17: a createTask, registerWorker or assignTask that fails, with any   *)
(* of its revert reasons, changes nothing of the ledger; a key on which   *)
(* no createTask has succeeded holds no task and no assignee, and a       *)
(* createTask on it with a valid ciphertext passes its checks.            *)
C17_FailedCallChangesNothing ==
    /\ [][UNCHANGED vars \/
              /\ \A k \in Keys : \A title \in Titles : \A req \in IngestRequests :
                 \A deadline \in Deadlines : \A sender \in Clients : \A rewardAmount \in Rewards :
                     (createTaskError(k, req[1], req[2]) \in {DuplicateKey, InvalidCiphertext}
                         /\ createTask(sender, k, title, req[1], req[2], rewardAmount, deadline))
                     => UNCHANGED ledgerVars
              /\ \A sender \in Addrs :
                     (registerWorkerError(sender) = AlreadyRegistered /\ registerWorker(sender))
                     => UNCHANGED ledgerVars
              /\ \A k \in Keys : \A sender \in Addrs :
                     (assignTaskError(sender, k) \in
                          {NotFound, NotActive, AlreadyAssigned, WorkerNotRegistered}
                         /\ assignTask(sender, k))
                     => UNCHANGED ledgerVars]_vars
    /\ [](\A k \in Keys : ~Created(k) =>
              /\ tasks[k] = ZeroTask
              /\ taskAssignments[k] = ZeroAddress
              /\ \A h \in Handles : createTaskError(k, h, h) = OK)

(* One key is created and assigned, the other is not created: on the      *)
(* first createTask fails with DuplicateKey and assignTask with           *)
(* AlreadyAssigned, on the second createTask with a bad ciphertext fails  *)
(* with InvalidCiphertext and assignTask with NotFound, and a second      *)
(* registerWorker fails with AlreadyRegistered.                           *)
C17_Witness ==
    \E k1 \in Keys, k2 \in Keys : \E w \in Workers :
        /\ Created(k1) /\ ~Created(k2)
        /\ createTaskError(k1, "h1", "h1") = DuplicateKey
        /\ createTaskError(k2, "h1", NoHandle) = InvalidCiphertext
        /\ createTaskError(k2, NoHandle, NoHandle) = InvalidCiphertext
        /\ registerWorkerError(w) = AlreadyRegistered
        /\ assignTaskError(w, k1) = AlreadyAssigned
        /\ assignTaskError(w, k2) = NotFound

(* ---- C18 ---- *)
(* C18: a task that was active at a time past its deadline is active and  *)
(* not completed in every later state, and no submitTaskResult on it      *)
(* passes its checks.                                                     *)
C18_LapsedStaysActive ==
    \A k \in lapsed :
        /\ tasks[k].isActive
        /\ ~tasks[k].isCompleted
        /\ \A sender \in Addrs : \A d \in Disclosures :
               submitTaskResultError(sender, k, d[1], d[2]) # OK

(* ---- C19 ---- *)
(* The handlers as functions of the ledger: L holds the three mappings    *)
(* and block.timestamp, c is a call with its sender and arguments.  Each  *)
(* Outcome is the handler's requires, each After its storage writes.      *)
Ledger ==
    [tasks |-> tasks, workers |-> workers, taskAssignments |-> taskAssignments, now |-> now]

CreateTaskCalls ==
    [op : {"createTask"}, sender : Clients, taskId : Keys, title : Titles,
     req : IngestRequests, rewardAmount : Rewards, deadline : Deadlines]

RegisterWorkerCalls == [op : {"registerWorker"}, sender : Workers]

AssignTaskCalls == [op : {"assignTask"}, sender : Addrs, taskId : Keys]

SubmitTaskResultCalls ==
    [op : {"submitTaskResult"}, sender : Addrs, taskId : Keys, d : Disclosures]

Calls == CreateTaskCalls \cup RegisterWorkerCalls \cup AssignTaskCalls \cup SubmitTaskResultCalls

createTaskOutcome(L, c) ==
    IF Len(L.tasks[c.taskId].title) # 0 THEN DuplicateKey
    ELSE IF fromExternalReverts(c.req[1], c.req[2]) THEN InvalidCiphertext
    ELSE IF ~isInitialized(fromExternal(c.req[1], c.req[2])) THEN InvalidCiphertext
    ELSE OK

registerWorkerOutcome(L, c) ==
    IF L.workers[c.sender].workerAddress # ZeroAddress THEN AlreadyRegistered ELSE OK

(* assignTask that also refuses while any task has an assignee. *)
assignTaskOutcome_OneAssignment(L, c) ==
    IF ~(Len(L.tasks[c.taskId].title) > 0) THEN NotFound
    ELSE IF ~L.tasks[c.taskId].isActive THEN NotActive
    ELSE IF \E k \in Keys : L.taskAssignments[k] # ZeroAddress THEN AlreadyAssigned
    ELSE IF L.workers[c.sender].workerAddress = ZeroAddress THEN WorkerNotRegistered
    ELSE OK

assignTaskOutcome(L, c) ==
    IF ~(Len(L.tasks[c.taskId].title) > 0) THEN NotFound
    ELSE IF ~L.tasks[c.taskId].isActive THEN NotActive
    ELSE IF L.taskAssignments[c.taskId] # ZeroAddress THEN AlreadyAssigned
    ELSE IF L.workers[c.sender].workerAddress = ZeroAddress THEN WorkerNotRegistered
    ELSE OK

submitTaskResultOutcome(L, c) ==
    IF ~(Len(L.tasks[c.taskId].title) > 0) THEN NotFound
    ELSE IF L.taskAssignments[c.taskId] # c.sender THEN NotAssignedWorker
    ELSE IF L.tasks[c.taskId].isCompleted THEN AlreadyCompleted
    ELSE IF deadlinePassed(L.now, L.tasks[c.taskId].deadline) THEN DeadlineExceeded
    ELSE IF ~checkSignatures(<<toBytes32(L.tasks[c.taskId].encryptedData)>>, c.d[1], c.d[2])
         THEN InvalidProof
    ELSE OK

Outcome(L, c) ==
    CASE c.op = "createTask" -> createTaskOutcome(L, c)
      [] c.op = "registerWorker" -> registerWorkerOutcome(L, c)
      [] c.op = "assignTask" -> assignTaskOutcome(L, c)
      [] c.op = "submitTaskResult" -> submitTaskResultOutcome(L, c)

After(L, c) ==
    IF Outcome(L, c) # OK THEN L
    ELSE CASE c.op = "createTask" ->
                [L EXCEPT !.tasks[c.taskId] =
                    [title |-> c.title,
                     encryptedData |-> fromExternal(c.req[1], c.req[2]),
                     rewardAmount |-> c.rewardAmount,
                     deadline |-> c.deadline,
                     requester |-> c.sender,
                     isActive |-> TRUE,
                     isCompleted |-> FALSE]]
           [] c.op = "registerWorker" ->
                [L EXCEPT !.workers[c.sender] =
                    [workerAddress |-> c.sender, reputation |-> 0, completedTasks |-> 0]]
           [] c.op = "assignTask" ->
                [L EXCEPT !.taskAssignments[c.taskId] = c.sender]
           [] c.op = "submitTaskResult" ->
                [L EXCEPT !.tasks[c.taskId].isCompleted = TRUE,
                          !.tasks[c.taskId].isActive = FALSE,
                          !.workers[c.sender].completedTasks = @ + 1,
                          !.workers[c.sender].reputation = @ + ReputationDelta]

(* The step is the call c. *)
Performs(c) ==
    CASE c.op = "createTask" ->
            createTask(c.sender, c.taskId, c.title, c.req[1], c.req[2], c.rewardAmount, c.deadline)
      [] c.op = "registerWorker" -> registerWorker(c.sender)
      [] c.op = "assignTask" -> assignTask(c.sender, c.taskId)
      [] c.op = "submitTaskResult" -> submitTaskResult(c.sender, c.taskId, c.d[1], c.d[2])

(* The revert reason of the call c in the current state. *)
ErrorOf(c) ==
    CASE c.op = "createTask" -> createTaskError(c.taskId, c.req[1], c.req[2])
      [] c.op = "registerWorker" -> registerWorkerError(c.sender)
      [] c.op = "assignTask" -> assignTaskError(c.sender, c.taskId)
      [] c.op = "submitTaskResult" -> submitTaskResultError(c.sender, c.taskId, c.d[1], c.d[2])

(* Two calls target different task keys and different worker identities:  *)
(* registerWorker names no key, createTask names no worker.               *)
Independent(c1, c2) ==
    /\ (c1.op # "registerWorker" /\ c2.op # "registerWorker") => c1.taskId # c2.taskId
    /\ (c1.op # "createTask" /\ c2.op # "createTask") => c1.sender # c2.sender

(* C19: of two calls on different task keys and different workers each    *)
(* has the same outcome whether it runs first or second, and both orders  *)
(* end in the same tasks, workers and taskAssignments (a failing call     *)
(* changes nothing, so the first call is taken to succeed); Outcome and   *)
(* After are what the handlers do in every step.                          *)
C19_IndependentCallsCommute ==
    /\ [](\A c2 \in Calls :
              Outcome(Ledger, c2) = OK
              => LET L2 == After(Ledger, c2)
                 IN  \A c1 \in Calls :
                         Independent(c1, c2)
                         => /\ Outcome(L2, c1) = Outcome(Ledger, c1)
                            /\ Outcome(Ledger, c1) = OK
                                   => After(L2, c1) = After(After(Ledger, c1), c2))
    /\ [](\A c \in Calls : Outcome(Ledger, c) = ErrorOf(c))
    /\ [][UNCHANGED vars \/ \A c \in Calls :
              Performs(c) => [Ledger' EXCEPT !.now = now] = After(Ledger, c)]_vars

(* Both tasks are completed, each by another worker: the state both       *)
(* orders of the two submits end in.                                      *)
C19_Witness ==
    \E k1 \in Keys, k2 \in Keys : \E w1 \in Workers, w2 \in Workers :
        /\ k1 # k2 /\ w1 # w2
        /\ tasks[k1].isCompleted /\ tasks[k2].isCompleted
        /\ taskAssignments[k1] = w1 /\ taskAssignments[k2] = w2
        /\ workers[w1].completedTasks = 1 /\ workers[w2].completedTasks = 1

(* ---- C20 ---- *)
(* C20: getAllTaskIds lists each key for which TaskCreated was logged     *)
(* exactly once and no other key, and getTask succeeds for every key it   *)
(* lists; getAllWorkers lists each registered identity exactly once and   *)
(* no other, and getWorker succeeds for every identity it lists; both     *)
(* lists only grow, at their end.                                         *)
C20_ListsAreIndexes ==
    /\ [](\A k \in Keys :
              Cardinality({i \in 1..Len(getAllTaskIds) : getAllTaskIds[i] = k})
                  = IF EventsOf("TaskCreated", k) # {} THEN 1 ELSE 0)
    /\ [](\A i \in 1..Len(getAllTaskIds) : getTaskError(getAllTaskIds[i]) = OK)
    /\ [](\A a \in Addrs :
              Cardinality({i \in 1..Len(getAllWorkers) : getAllWorkers[i] = a})
                  = IF Registered(a) THEN 1 ELSE 0)
    /\ [](\A i \in 1..Len(getAllWorkers) :
              /\ getWorkerError(getAllWorkers[i]) = OK
              /\ getWorker(getAllWorkers[i]) =
                     <<workers[getAllWorkers[i]].reputation,
                       workers[getAllWorkers[i]].completedTasks>>)
    /\ [][/\ Len(getAllTaskIds') >= Len(getAllTaskIds)
          /\ \A i \in 1..Len(getAllTaskIds) : getAllTaskIds'[i] = getAllTaskIds[i]
          /\ Len(getAllWorkers') >= Len(getAllWorkers)
          /\ \A i \in 1..Len(getAllWorkers) : getAllWorkers'[i] = getAllWorkers[i]]_vars

(* ---- C21 ---- *)
(* C21: a createTask whose checks pass stores the task with isActive      *)
(* true, isCompleted false and the caller as requester, leaves the key    *)
(* without assignee, makes the task's handle publicly decryptable and     *)
(* logs TaskCreated; the set of publicly decryptable handles changes only *)
(* in a step that pushes a key, and holds the handle of every created     *)
(* task.                                                                  *)
C21_CreateStoresActiveTask ==
    /\ [][UNCHANGED vars \/
              \A k \in Keys : \A title \in Titles : \A req \in IngestRequests :
              \A deadline \in Deadlines : \A sender \in Clients : \A rewardAmount \in Rewards :
                  (createTaskError(k, req[1], req[2]) = OK
                      /\ createTask(sender, k, title, req[1], req[2], rewardAmount, deadline))
                  => /\ tasks'[k].isActive
                     /\ ~tasks'[k].isCompleted
                     /\ tasks'[k].requester = sender
                     /\ tasks'[k].encryptedData = req[1]
                     /\ taskAssignments'[k] = ZeroAddress
                     /\ req[1] \in publiclyDecryptable'
                     /\ Emits("TaskCreated", k, sender)]_vars
    /\ [][publiclyDecryptable' # publiclyDecryptable
              => /\ Len(taskIds') = Len(taskIds) + 1
                 /\ publiclyDecryptable' =
                        publiclyDecryptable \cup {tasks'[taskIds'[Len(taskIds')]].encryptedData}]_vars
    /\ [](\A k \in Keys : Created(k) => tasks[k].encryptedData \in publiclyDecryptable)

(* A task has been created, assigned and completed, and its handle is     *)
(* publicly decryptable; the other key holds a created, unassigned task   *)
(* with another handle, publicly decryptable too.                         *)
C21_Witness ==
    \E k1 \in Keys, k2 \in Keys :
        /\ k1 # k2 /\ Created(k1) /\ Created(k2)
        /\ tasks[k1].isCompleted
        /\ tasks[k2].isActive /\ taskAssignments[k2] = ZeroAddress
        /\ tasks[k1].encryptedData # tasks[k2].encryptedData
        /\ publiclyDecryptable = {tasks[k1].encryptedData, tasks[k2].encryptedData}

C23_ViewsFailExactlyOnAbsent ==
    /\ \A k \in Keys : (getTaskError(k) = NotFound) <=> ~Created(k)
    /\ \A k \in Keys : (getTaskError(k) = OK) <=> Created(k)
    /\ \A a \in Addrs : (getWorkerError(a) # OK) <=> a \notin Range(getAllWorkers)

(* ---- C24 ---- *)
(* C24: no step changes the title, rewardAmount, deadline, requester or   *)
(* handle of a task that has been created.                                *)
C24_TaskDataImmutable ==
    [][\A k \in Keys :
          Created(k)
          => /\ tasks'[k].title = tasks[k].title
             /\ tasks'[k].rewardAmount = tasks[k].rewardAmount
             /\ tasks'[k].deadline = tasks[k].deadline
             /\ tasks'[k].requester = tasks[k].requester
             /\ tasks'[k].encryptedData = tasks[k].encryptedData]_vars

(* ---- C25 ---- *)
(* C25: in every state the reputation of every identity is 10 times its   *)
(* completedTasks.                                                        *)
C25_ReputationTenPerTask ==
    \A a \in Addrs : workers[a].reputation = 10 * workers[a].completedTasks

(* One worker has completed two tasks. *)
C25_Witness ==
    \E a \in Workers : workers[a].completedTasks = 2 /\ workers[a].reputation = 20

(* ---- C26 ---- *)
(* C26: in every state the completedTasks of every identity is the number *)
(* of completed tasks assigned to it, and the completedTasks of all       *)
(* identities add up to the number of completed tasks.                    *)
C26_CompletedTasksCounted ==
    /\ \A a \in Addrs :
           workers[a].completedTasks =
               Cardinality({k \in Keys : tasks[k].isCompleted /\ taskAssignments[k] = a})
    /\ Cardinality({p \in Addrs \X (1..Len(events)) : p[2] <= workers[p[1]].completedTasks})
           = Cardinality({k \in Keys : tasks[k].isCompleted})

(* A worker holds two assignments, one of them completed, and counts one. *)
C26_Witness ==
    \E a \in Workers : \E k1 \in Keys, k2 \in Keys :
        /\ taskAssignments[k1] = a /\ taskAssignments[k2] = a
        /\ tasks[k1].isCompleted /\ ~tasks[k2].isCompleted
        /\ workers[a].completedTasks = 1

(* ---- C27 ---- *)
(* C27: in every state a key with an assignee is the key of a created     *)
(* task that getTask finds, its assignee is a registered worker, and      *)
(* every completed task has an assignee.                                  *)
C27_AssignmentsWellFormed ==
    /\ \A k \in Keys :
           taskAssignments[k] # ZeroAddress
           => /\ Created(k)
              /\ getTaskError(k) = OK
              /\ Registered(taskAssignments[k])
              /\ getWorkerError(taskAssignments[k]) = OK
    /\ \A k \in Keys : tasks[k].isCompleted => taskAssignments[k] # ZeroAddress

(* One task is completed by its registered assignee while the other key   *)
(* holds a created task that nobody was assigned to.                      *)
C27_Witness ==
    \E k1 \in Keys, k2 \in Keys :
        /\ tasks[k1].isCompleted
        /\ Registered(taskAssignments[k1])
        /\ Created(k2)
        /\ taskAssignments[k2] = ZeroAddress
        /\ ~tasks[k2].isCompleted

(* ---- C28 ---- *)
(* C28: in the event log every TaskCompleted(k, w) comes after a          *)
(* TaskAssigned(k, w), which comes after a TaskCreated of k; every        *)
(* TaskAssigned of k comes after a TaskCreated of k; and no key has two   *)
(* TaskAssigned.                                                          *)
C28_EventOrder ==
    /\ \A i \in 1..Len(events) :
           events[i].name = "TaskCompleted"
           => \E j \in 1..(i - 1) :
                  /\ events[j] = [name |-> "TaskAssigned", taskId |-> events[i].taskId,
                                  who |-> events[i].who]
                  /\ \E h \in 1..(j - 1) :
                         /\ events[h].name = "TaskCreated"
                         /\ events[h].taskId = events[i].taskId
    /\ \A i \in 1..Len(events) :
           events[i].name = "TaskAssigned"
           => \E h \in 1..(i - 1) :
                  /\ events[h].name = "TaskCreated"
                  /\ events[h].taskId = events[i].taskId
    /\ \A k \in Keys : Cardinality(EventsOf("TaskAssigned", k)) <= 1

(* Both keys have their three events in the log, the two histories        *)
(* interleaved: the second key is created after the first is assigned.    *)
C28_Witness ==
    \E k1 \in Keys, k2 \in Keys :
        /\ k1 # k2
        /\ Len(events) = 6
        /\ events[1].name = "TaskCreated" /\ events[1].taskId = k1
        /\ events[2].name = "TaskAssigned" /\ events[2].taskId = k1
        /\ events[3].name = "TaskCreated" /\ events[3].taskId = k2
        /\ EventsOf("TaskCompleted", k1) # {}
        /\ EventsOf("TaskCompleted", k2) # {}

(* ---- C29 ---- *)
(* C29: a submitTaskResult that succeeds on task k by w changes, of the   *)
(* task records, worker records, assignments and the two lists, only the  *)
(* isActive and isCompleted of k and the completedTasks and reputation of *)
(* w; an assignTask that succeeds on k changes only the assignee of k.    *)
C29_SubmitAndAssignFrame ==
    [][UNCHANGED vars \/
          /\ \A k \in Keys : \A sender \in Addrs : \A d \in Disclosures :
                 (submitTaskResultError(sender, k, d[1], d[2]) = OK
                     /\ submitTaskResult(sender, k, d[1], d[2]))
                 => /\ tasks' = [tasks EXCEPT ![k].isActive = tasks'[k].isActive,
                                              ![k].isCompleted = tasks'[k].isCompleted]
                    /\ workers' = [workers EXCEPT
                                      ![sender].completedTasks = workers'[sender].completedTasks,
                                      ![sender].reputation = workers'[sender].reputation]
                    /\ UNCHANGED <<taskAssignments, taskIds, workerAddresses>>
          /\ \A k \in Keys : \A sender \in Addrs :
                 (assignTaskError(sender, k) = OK /\ assignTask(sender, k))
                 => /\ taskAssignments' = [taskAssignments EXCEPT ![k] = taskAssignments'[k]]
                    /\ UNCHANGED <<tasks, workers, taskIds, workerAddresses>>]_vars

(* A worker has completed one task while the other task is assigned to   *)
(* the other worker and still active, with that worker's counters at 0.   *)
C29_Witness ==
    \E k1 \in Keys, k2 \in Keys : \E w1 \in Workers, w2 \in Workers :
        /\ w1 # w2
        /\ tasks[k1].isCompleted /\ taskAssignments[k1] = w1
        /\ tasks[k2].isActive /\ taskAssignments[k2] = w2
        /\ workers[w1].completedTasks = 1
        /\ workers[w2].completedTasks = 0
        /\ workerAddresses = <<w2, w1>>

====
